---- MODULE Spec2Model ----
(***************************************************************************)
(* Model of safe_convert_mrxs_to_jpg_with_crop (src/main.py): one run of   *)
(* the ROI extraction pipeline over a pyramid slide, with the environment  *)
(* (slide contents, I/O failures, the wall clock) chosen nondeterministi-  *)
(* cally.                                                                  *)
(*                                                                         *)
(* Abstractions: a downsample factor is a rational <<num, den>> and the    *)
(* float product x * scale_factor is the exact rational product (binary64  *)
(* rounding of the product is not modelled); the coarse level is a set of  *)
(* rectangular blobs on a black background, each a connected component of  *)
(* uniform grey level; pixel data is identified by the region it was read  *)
(* from and its channel mode.                                              *)
(***************************************************************************)
EXTENDS Integers, Sequences, FiniteSets, TLC

\* ---------------------------------------------------------------- bounds
MaxXY == 3
MaxWH == 3
MaxDen == 4
MaxScale == 2

\* ------------------------------------------------------ program constants
Threshold == 10
LoopCount == 10
ReadIteration == 5
DefaultQuality == 80
CoarseW == 64
CoarseH == 48

\* Python's None, typed per variable: no box or region, no image, no file, no
\* result returned yet, no position.
None == "None"

NoBox == <<>>

NoImage == [mode |-> None, region |-> NoBox]

NoFile == [format |-> None, mode |-> None, region |-> NoBox, lossless |-> FALSE,
           optimize |-> FALSE]

NoFailure == [at |-> None, text |-> None]

NoResult == [returned |-> FALSE, succeeded |-> FALSE, message |-> <<>>]

Returned(ok, msg) == [returned |-> TRUE, succeeded |-> ok, message |-> msg]

\* ------------------------------------------------------------ rationals
One == <<1, 1>>

Num(d) == d[1]

Den(d) == d[2]

\* int(v): Python's int() of a real n/m truncates toward zero.
IntTrunc(n, m) == IF n >= 0 THEN n \div m ELSE -((-n) \div m)

\* int(v * scale_factor) for an integer v and scale_factor = num/den.
ScaleCoordWholeFactor(v, d) == v * IntTrunc(Num(d), Den(d))

ScaleCoord(v, d) == IntTrunc(v * Num(d), Den(d))

\* ------------------------------------------------------------ the slide
\* Bounding rectangles <<x, y, w, h>> of the blobs a coarse level may hold.
Rects ==
    {<<0, MaxXY, 1, MaxWH>>, <<MaxXY, MaxXY, MaxWH, MaxWH>>, <<0, 0, MaxWH, MaxWH>>,
     <<10, 10, 50, 30>>}

Greys == {Threshold, Threshold + 1}

Blobs == [rect : Rects, grey : Greys]

Images == {{}} \cup {{a, b} : a \in Blobs, b \in Blobs}

Downsamples ==
    {<<n, m>> : n \in 1..(MaxScale * MaxDen + 1), m \in 1..MaxDen}

CoarseFactors ==
    {d \in Downsamples : Num(d) >= Den(d) /\ Num(d) <= MaxScale * Den(d) + 1}
        \cup {<<16, 1>>}

LevelDownsamples ==
    {<<One>>} \cup {<<One, d>> : d \in CoarseFactors}
        \cup {<<One, <<4, 1>>, <<16, 1>>>>}

\* The dimensions of level l, from those of the coarsest level and the ratio of
\* the two factors: as wide as the coarsest level times the whole part of the
\* ratio and as high as the coarsest level times the ratio (OpenSlide's
\* downsample is the mean of the width and height ratios, so one of them may
\* lie below it).
LevelDimensions(ds) ==
    [l \in 1..Len(ds) |->
        LET n == Num(ds[Len(ds)]) * Den(ds[l])
            m == Den(ds[Len(ds)]) * Num(ds[l])
        IN  <<CoarseW * (n \div m), IntTrunc(CoarseH * n, m)>>]

Slides ==
    {[level_count |-> Len(ds),
      level_downsamples |-> ds,
      level_dimensions |-> LevelDimensions(ds),
      coarse |-> im] : ds \in LevelDownsamples, im \in Images}

Qualities == {1, DefaultQuality, 100}

ErrorKinds == {"OpenSlideError", "OSError"}

ErrorTexts == {"I/O error", "No object detected"}

Errors == [kind : ErrorKinds, text : ErrorTexts]

\* The wall clock counts ticks: a blocking call (I/O, OpenCV, sleep) takes one,
\* the in-memory arithmetic of the mapper may take less than the clock resolves.
Ticks == {1}

ScaleTicks == {0, 1}

\* ------------------------------------------------------------- detector
\* cv2.threshold(gray, 10, 255, THRESH_BINARY): foreground iff grey > 10.
Thresh(grey) == grey > Threshold

\* cv2.findContours(..., RETR_EXTERNAL, ...): one contour per foreground blob.
FindContours(im) == {b.rect : b \in {c \in im : Thresh(c.grey)}}

\* cv2.contourArea of the outline through the pixel centres of a w x h blob.
ContourArea(r) == (r[3] - 1) * (r[4] - 1)

\* max(contours, key=cv2.contourArea): a contour of maximal area (which of
\* several equal ones depends on the order findContours returns them in).
Largest(cs) == {r \in cs : \A q \in cs : ContourArea(q) <= ContourArea(r)}

\* ---------------------------------------------------------------- mapper
\* The iteration of the progress loop that issues the read: "if i == 5".
ReadAt(k) == k = ReadIteration

\* slide.read_region((x_high, y_high), 0, (w_high, h_high)): the request as
\* issued, whatever the dimensions dims of level 0.
ReadRequestClamped(r, dims) ==
    [by |-> "Stager", level |-> 0, origin |-> <<r[1], r[2]>>,
     size |-> <<IF r[1] + r[3] > dims[1] THEN dims[1] - r[1] ELSE r[3],
                IF r[2] + r[4] > dims[2] THEN dims[2] - r[2] ELSE r[4]>>]

ReadRequest(r, dims) ==
    [by |-> "Stager", level |-> 0, origin |-> <<r[1], r[2]>>, size |-> <<r[3], r[4]>>]

ScaleBox(b, d) ==
    <<ScaleCoord(b[1], d), ScaleCoord(b[2], d), ScaleCoord(b[3], d), ScaleCoord(b[4], d)>>

\* -------------------------------------------------------------- messages
RECURSIVE Digits(_)
Digits(n) == IF n < 10 THEN <<n>> ELSE Digits(n \div 10) \o <<n % 10>>

NoObjectText == "No object detected"

\* The literal "Error: No object detected".
NoObjectMessage == <<"Error: ", NoObjectText>>

\* f"Error: {str(e)}": the stage the exception came from is not consulted.
FailureMessage(stage, e) == <<"Error: ", e.text>>

SuccessMessage(w, h) ==
    <<"Successfully saved ", Digits(w), "x", Digits(h), " cropped image (original size)">>

\* __exit__ of "with OpenSlide(...) as slide": closes an open handle.
ExitLeak(h) == h

Exit(h) == IF h = "open" THEN "closed" ELSE h

\* Where an exception raised in the try block leaves the run: the single
\* except clause returns, whatever the stage.
OnErrorSwallowSave(stage) == IF stage = "Save" THEN "Completed" ELSE "Failed"

OnError(stage) == "Failed"

\* except Exception: every error class the stages raise derives from it.
CatchesOSErrorOnly(e) == e.kind = "OSError"

Catches(e) == e.kind \in ErrorKinds

\* --------------------------------------------------------------- writer
\* img.save(path, 'png', quality=q, optimize=True, progressive=True): the
\* format is the literal 'png'; the PNG encoder reads optimize and ignores
\* quality and progressive.
SaveFileLossy(im, q) ==
    [format |-> IF q < 100 THEN "jpeg" ELSE "png", mode |-> im.mode,
     region |-> im.region, lossless |-> q >= 100, optimize |-> TRUE]

SaveFile(im, q) ==
    [format |-> "png", mode |-> im.mode, region |-> im.region,
     lossless |-> TRUE, optimize |-> TRUE]

\* ----------------------------------------------------------------- state
TimingKeys == {"total", "detection", "coordinate_calc", "image_reading", "processing", "saving"}

VARIABLES
    slide, quality,
    pc, failure,
    now, start_time, step_start,
    timing_info, writes,
    handle, closes,
    box, region, i, checkpoints, reads, img, file,
    result, raised

vars ==
    <<slide, quality, pc, failure, now, start_time, step_start, timing_info,
      writes, handle, closes, box, region, i, checkpoints, reads, img, file,
      result, raised>>

Init ==
    /\ slide \in Slides
    /\ quality \in Qualities
    /\ pc = "Idle"
    /\ failure = NoFailure
    /\ now = 0
    /\ start_time = 0
    /\ step_start = 0
    /\ timing_info = [k \in TimingKeys |-> 0]
    /\ writes = [k \in TimingKeys |-> 0]
    /\ handle = "unopened"
    /\ closes = 0
    /\ box = NoBox
    /\ region = NoBox
    /\ i = 0
    /\ checkpoints = 0
    /\ reads = <<>>
    /\ img = NoImage
    /\ file = NoFile
    /\ result = NoResult
    /\ raised = {}

\* ---------------------------------------------------------------- actions
\* The timing_info key a step stores its elapsed time under when it is done.
StepKeyPasted(step) ==
    CASE step = "CoarseRead" -> "detection"
      [] step = "Scale" -> "detection"
      [] step = "ReadLoop" -> "image_reading"
      [] step = "Convert" -> "processing"
      [] step = "Save" -> "saving"

StepKey(step) ==
    CASE step = "CoarseRead" -> "detection"
      [] step = "Scale" -> "coordinate_calc"
      [] step = "ReadLoop" -> "image_reading"
      [] step = "Convert" -> "processing"
      [] step = "Save" -> "saving"

Set(ti, key, val) == [ti EXCEPT ![key] = val]

Count(wr, key) == [wr EXCEPT ![key] = @ + 1]

Closed(h, h2) == IF h = "open" /\ h2 = "closed" THEN 1 ELSE 0

\* An exception e surfaces at time t from the position pc, with the handle left
\* as h: lines 107-109 when the except clause matches, else it leaves the call.
Raise(e, t, h) ==
    /\ now' = t
    /\ failure' = [at |-> pc, text |-> e.text]
    /\ pc' = OnError(pc)
    /\ handle' = h
    /\ closes' = closes + Closed(handle, h)
    /\ IF Catches(e)
       THEN /\ timing_info' = Set(timing_info, "total", t - start_time)
            /\ writes' = Count(writes, "total")
            /\ result' = Returned(FALSE, FailureMessage(pc, e))
            /\ raised' = {}
       ELSE /\ UNCHANGED <<timing_info, writes, result>>
            /\ raised' = {e}

\* The caller invokes the entry point: lines 24-32.
Begin ==
    /\ pc = "Idle"
    /\ pc' = "Open"
    /\ start_time' = now
    /\ timing_info' = [k \in TimingKeys |-> 0]
    /\ UNCHANGED <<slide, quality, failure, now, step_start, writes, handle, closes,
                   box, region, i, checkpoints, reads, img, file, result, raised>>

\* Lines 35-44: OpenSlide(input_path) succeeds; step 1 starts its clock.
OpenOk ==
    /\ pc = "Open"
    /\ \E dt \in Ticks :
          /\ now' = now + dt
          /\ step_start' = now + dt
    /\ handle' = "open"
    /\ pc' = "CoarseRead"
    /\ UNCHANGED <<slide, quality, failure, start_time, timing_info, writes, closes,
                   box, region, i, checkpoints, reads, img, file, result, raised>>

\* Line 35: OpenSlide(input_path) raises; no handle was acquired.
OpenFail ==
    /\ pc = "Open"
    /\ \E dt \in Ticks, e \in Errors : Raise(e, now + dt, "failed")
    /\ UNCHANGED <<slide, quality, start_time, step_start, box, region, i,
                   checkpoints, reads, img, file>>

\* Lines 44-48: the coarsest level is read whole and its time recorded.
CoarseReadOk ==
    /\ pc = "CoarseRead"
    /\ \E dt \in Ticks :
          /\ now' = now + dt
          /\ timing_info' = Set(timing_info, StepKey(pc), now + dt - step_start)
    /\ writes' = Count(writes, StepKey(pc))
    /\ reads' = Append(reads, [by |-> "Detector", level |-> slide.level_count - 1,
                                origin |-> <<0, 0>>,
                                size |-> slide.level_dimensions[slide.level_count]])
    /\ pc' = "Threshold"
    /\ UNCHANGED <<slide, quality, failure, start_time, step_start, handle, closes,
                   box, region, i, checkpoints, img, file, result, raised>>

\* Lines 45-46: read_region or convert raises.
CoarseReadFail ==
    /\ pc = "CoarseRead"
    /\ \E dt \in Ticks, e \in Errors : Raise(e, now + dt, Exit(handle))
    /\ UNCHANGED <<slide, quality, start_time, step_start, box, region, i,
                   checkpoints, reads, img, file>>

\* Lines 51-56: no contour; the early return leaves the with block.
DetectNone ==
    /\ pc = "Threshold"
    /\ FindContours(slide.coarse) = {}
    /\ \E dt \in Ticks : now' = now + dt
    /\ failure' = [at |-> pc, text |-> NoObjectText]
    /\ pc' = "Failed"
    /\ handle' = Exit(handle)
    /\ closes' = closes + Closed(handle, Exit(handle))
    /\ result' = Returned(FALSE, NoObjectMessage)
    /\ UNCHANGED <<slide, quality, start_time, step_start, timing_info, writes,
                   box, region, i, checkpoints, reads, img, file, raised>>

\* Lines 51-60: the bounding rectangle of a largest contour.
DetectFound ==
    /\ pc = "Threshold"
    /\ FindContours(slide.coarse) # {}
    /\ \E dt \in Ticks : now' = now + dt
    /\ box' \in Largest(FindContours(slide.coarse))
    /\ pc' = "Scale"
    /\ UNCHANGED <<slide, quality, failure, start_time, step_start, timing_info,
                   writes, handle, closes, region, i, checkpoints, reads, img, file,
                   result, raised>>

\* Lines 51-59: an OpenCV call raises.
DetectFail ==
    /\ pc = "Threshold"
    /\ \E dt \in Ticks, e \in Errors : Raise(e, now + dt, Exit(handle))
    /\ UNCHANGED <<slide, quality, start_time, step_start, box, region, i,
                   checkpoints, reads, img, file>>

\* Lines 62-78: the box is scaled to level 0; step 3 starts its clock.
Scale ==
    /\ pc = "Scale"
    /\ region' = ScaleBox(box, slide.level_downsamples[slide.level_count])
    /\ \E dt \in ScaleTicks :
          /\ now' = now + dt
          /\ timing_info' = Set(timing_info, StepKey(pc), dt)
          /\ step_start' = now + dt
    /\ writes' = Count(writes, StepKey(pc))
    /\ i' = 0
    /\ img' = NoImage
    /\ pc' = "ReadLoop"
    /\ UNCHANGED <<slide, quality, failure, start_time, handle, closes, box,
                   checkpoints, reads, file, result, raised>>

\* Lines 80-82, an iteration other than the reading one: sleep, one checkpoint.
LoopStep ==
    /\ pc = "ReadLoop"
    /\ i < LoopCount
    /\ ~ReadAt(i)
    /\ \E dt \in Ticks : now' = now + dt
    /\ checkpoints' = checkpoints + 1
    /\ i' = i + 1
    /\ UNCHANGED <<slide, quality, pc, failure, start_time, step_start, timing_info,
                   writes, handle, closes, box, region, reads, img, file, result,
                   raised>>

\* Lines 80-84, the reading iteration: sleep, one checkpoint, then the read of
\* the region at level 0, which returns RGBA pixel data.
LoopRead ==
    /\ pc = "ReadLoop"
    /\ i < LoopCount
    /\ ReadAt(i)
    /\ \E dt \in Ticks : now' = now + dt
    /\ checkpoints' = checkpoints + 1
    /\ reads' = Append(reads, ReadRequest(region, slide.level_dimensions[1]))
    /\ img' = [mode |-> "RGBA", region |-> region]
    /\ i' = i + 1
    /\ UNCHANGED <<slide, quality, pc, failure, start_time, step_start, timing_info,
                   writes, handle, closes, box, region, file, result, raised>>

\* Lines 80-84, the reading iteration: the read at level 0 raises.
LoopReadFail ==
    /\ pc = "ReadLoop"
    /\ i < LoopCount
    /\ ReadAt(i)
    /\ checkpoints' = checkpoints + 1
    /\ reads' = Append(reads, ReadRequest(region, slide.level_dimensions[1]))
    /\ \E dt \in Ticks, e \in Errors : Raise(e, now + dt, Exit(handle))
    /\ UNCHANGED <<slide, quality, start_time, step_start, box, region, i, img, file>>

\* Lines 85-91: the loop is over; its time is recorded and step 4 starts.
LoopExit ==
    /\ pc = "ReadLoop"
    /\ i >= LoopCount
    /\ timing_info' = Set(timing_info, StepKey(pc), now - step_start)
    /\ writes' = Count(writes, StepKey(pc))
    /\ step_start' = now
    /\ pc' = "Convert"
    /\ UNCHANGED <<slide, quality, failure, now, start_time, handle, closes, box,
                   region, i, checkpoints, reads, img, file, result, raised>>

\* Lines 92-97: the pixel data is converted to RGB; step 5 starts.
ConvertOk ==
    /\ pc = "Convert"
    /\ img' = [img EXCEPT !.mode = "RGB"]
    /\ \E dt \in Ticks :
          /\ now' = now + dt
          /\ timing_info' = Set(timing_info, StepKey(pc), dt)
          /\ step_start' = now + dt
    /\ writes' = Count(writes, StepKey(pc))
    /\ pc' = "Save"
    /\ UNCHANGED <<slide, quality, failure, start_time, handle, closes, box, region,
                   i, checkpoints, reads, file, result, raised>>

\* Line 92: convert raises.
ConvertFail ==
    /\ pc = "Convert"
    /\ \E dt \in Ticks, e \in Errors : Raise(e, now + dt, Exit(handle))
    /\ UNCHANGED <<slide, quality, start_time, step_start, box, region, i,
                   checkpoints, reads, img, file>>

\* Lines 98-105: the file is written, the totals recorded, and the success
\* triple returned through the with block's exit.
SaveOk ==
    /\ pc = "Save"
    /\ file' = SaveFile(img, quality)
    /\ \E dt \in Ticks :
          /\ now' = now + dt
          /\ timing_info' =
                Set(Set(timing_info, StepKey(pc), dt), "total", now + dt - start_time)
    /\ writes' = Count(Count(writes, StepKey(pc)), "total")
    /\ result' = Returned(TRUE, SuccessMessage(region[3], region[4]))
    /\ handle' = Exit(handle)
    /\ closes' = closes + Closed(handle, Exit(handle))
    /\ pc' = "Completed"
    /\ UNCHANGED <<slide, quality, failure, start_time, step_start, box, region, i,
                   checkpoints, reads, img, raised>>

\* Line 98: save raises (the path is not writable, the encoder fails).
SaveFail ==
    /\ pc = "Save"
    /\ \E dt \in Ticks, e \in Errors : Raise(e, now + dt, Exit(handle))
    /\ UNCHANGED <<slide, quality, start_time, step_start, box, region, i,
                   checkpoints, reads, img, file>>

Next ==
    \/ Begin
    \/ OpenOk
    \/ OpenFail
    \/ CoarseReadOk
    \/ CoarseReadFail
    \/ DetectNone
    \/ DetectFound
    \/ DetectFail
    \/ Scale
    \/ LoopStep
    \/ LoopRead
    \/ LoopReadFail
    \/ LoopExit
    \/ ConvertOk
    \/ ConvertFail
    \/ SaveOk
    \/ SaveFail

Spec == Init /\ [][Next]_vars

\* ------------------------------------------------------------ properties
Terminal == {"Completed", "Failed"}

\* The orchestrator state a code position belongs to.
Stage(p) ==
    CASE p \in {"Idle", "Open"} -> "Idle"
      [] p \in {"CoarseRead", "Threshold"} -> "Detecting"
      [] p = "Scale" -> "Mapping"
      [] p = "ReadLoop" -> "Staging"
      [] p \in {"Convert", "Save"} -> "WritingOutput"
      [] p = "Completed" -> "Completed"
      [] p = "Failed" -> "Failed"

PcRank(p) ==
    CASE p = "Idle" -> 0
      [] p = "Open" -> 1
      [] p = "CoarseRead" -> 2
      [] p = "Threshold" -> 3
      [] p = "Scale" -> 4
      [] p = "ReadLoop" -> 5
      [] p = "Convert" -> 6
      [] p = "Save" -> 7
      [] p = "Completed" -> 8

\* The positions an exception can surface from.
FailPositions == {"Open", "CoarseRead", "Threshold", "ReadLoop", "Convert", "Save"}

\* The position the run has reached, the failing one for a failed run.
At == IF pc = "Failed" THEN failure.at ELSE pc

StagerReads == SelectSeq(reads, LAMBDA r : r.by = "Stager")

CoarseFactor == slide.level_downsamples[slide.level_count]

\* C1: every failing return, the no-region one included, carries
\* succeeded = false and timing.total > 0.
C1_FailureRecordsTotal ==
    pc = "Failed" =>
        /\ result.returned
        /\ ~result.succeeded
        /\ timing_info["total"] > 0

\* C2: the message of a failed run is one no failure in another stage with
\* the same error text would have produced.
C2_MessageNamesStage ==
    (pc = "Failed" /\ result.returned) =>
        \A p \in FailPositions, e \in Errors :
            (Stage(p) # Stage(failure.at) /\ e.text = failure.text)
                => FailureMessage(p, e) # result.message

\* C3: no error escapes the entry point: nothing is ever raised to the caller,
\* a failed run has returned (False, message, timing), and a run that has not
\* ended can always take a step.
C3_NoErrorEscapes ==
    /\ raised = {}
    /\ pc = "Failed" => (result.returned /\ ~result.succeeded /\ Len(result.message) > 0)
    /\ pc \notin Terminal => (~result.returned /\ ENABLED Next)

C3_Witness ==
    /\ pc = "Failed"
    /\ failure.at = "Open"
    /\ result.returned
    /\ ~result.succeeded

\* The step (1 to 5, as the code numbers them) a position belongs to.
StepOf(p) ==
    CASE p \in {"Idle", "Open"} -> 0
      [] p \in {"CoarseRead", "Threshold"} -> 1
      [] p = "Scale" -> 2
      [] p = "ReadLoop" -> 3
      [] p = "Convert" -> 4
      [] p = "Save" -> 5

StepEntry ==
    <<"detection", "coordinate_calc", "image_reading", "processing", "saving">>

\* C4 as stated: every stage entry is written at most once and only after its
\* stage (step 1 to 5 of the code) has finished, so in a failed run the entry of
\* the failing stage and of every later stage is zero and the entries of the
\* earlier stages are written.
C4_StageEntriesAfterStage ==
    /\ \A k \in TimingKeys \ {"total"} : writes[k] <= 1
    /\ pc = "Failed" =>
          \A n \in 1..5 :
              IF n < StepOf(failure.at)
              THEN writes[StepEntry[n]] = 1
              ELSE writes[StepEntry[n]] = 0 /\ timing_info[StepEntry[n]] = 0

\* The position whose elapsed time an entry holds.
TimedStep(k) ==
    CASE k = "detection" -> "CoarseRead"
      [] k = "coordinate_calc" -> "Scale"
      [] k = "image_reading" -> "ReadLoop"
      [] k = "processing" -> "Convert"
      [] k = "saving" -> "Save"

\* C4 amended: every stage entry is written at most once, and exactly when the
\* operation it times has returned: detection times the coarse-level read
\* alone, so it is already written when thresholding or the contour search
\* fails or finds nothing; an entry not written is zero. When the level-0 read
\* raises, detection and coordinate_calc are written and image_reading is zero.
C4_EntriesAfterTimedStep ==
    /\ \A k \in TimingKeys \ {"total"} :
          /\ writes[k] = (IF PcRank(At) > PcRank(TimedStep(k)) THEN 1 ELSE 0)
          /\ writes[k] = 0 => timing_info[k] = 0
    /\ (pc = "Failed" /\ failure.at = "ReadLoop") =>
          /\ writes["detection"] = 1
          /\ writes["coordinate_calc"] = 1
          /\ timing_info["image_reading"] = 0

C4_Witness ==
    /\ pc = "Failed"
    /\ failure.at = "ReadLoop"
    /\ writes["detection"] = 1
    /\ timing_info["detection"] > 0
    /\ writes["coordinate_calc"] = 1
    /\ timing_info["image_reading"] = 0

\* C5: the slide handle is closed on every exit path: no run ends with the
\* handle open, a handle is closed at most once and only after it was opened,
\* and a handle that failed to open is never closed or read from.
C5_HandleReleased ==
    /\ pc \in Terminal => handle \in {"closed", "failed"}
    /\ closes = (IF handle = "closed" THEN 1 ELSE 0)
    /\ handle = "failed" => (reads = <<>> /\ failure.at = "Open")
    /\ reads # <<>> => handle \in {"open", "closed"}

C5_Witness ==
    /\ pc = "Failed"
    /\ failure.at = "Threshold"
    /\ result.message = NoObjectMessage
    /\ timing_info["total"] = 0
    /\ handle = "closed"
    /\ closes = 1

\* A step of the run stays at its position (the progress loop, counting up),
\* moves to the next one, or fails.
C6_StepInOrder ==
    /\ (pc' = pc /\ i' # i) => (pc = "ReadLoop" /\ i' = i + 1 /\ i' <= LoopCount)
    /\ pc' # pc =>
        /\ pc \notin Terminal
        /\ \/ pc' = "Failed"
           \/ PcRank(pc') = PcRank(pc) + 1
        /\ Stage(pc') # Stage(pc) => (i' = i \/ (pc' = "ReadLoop" /\ i' = 0))

\* C6: the stages run in the order Idle, Detecting, Mapping, Staging,
\* WritingOutput, Completed; a step stays in its stage, enters the next one, or
\* fails; Completed and Failed are never left; the level-0 read is issued only
\* after detection found a component, and the run completes only with the file
\* written from a region that was read.
C6_StagesInOrder ==
    /\ [][C6_StepInOrder]_vars
    /\ [](StagerReads # <<>> => (box # NoBox /\ box \in FindContours(slide.coarse)))
    /\ [](file # NoFile => (img # NoImage /\ Len(StagerReads) = 1))
    /\ [](pc = "Completed" => (file # NoFile /\ result.succeeded))
    /\ [](pc = "Failed" => file = NoFile)

C6_Witness ==
    /\ pc = "Completed"
    /\ file # NoFile
    /\ Len(reads) = 2

\* floor(v * d) for a natural v and a rational d, by its defining inequality.
Floor(v, d) == CHOOSE k \in 0..(v * Num(d)) : k * Den(d) <= v * Num(d) /\ v * Num(d) < (k + 1) * Den(d)

\* C7: the stager issues exactly one read, at level 0, with origin
\* (floor(x*d), floor(y*d)) and size (floor(w*d), floor(h*d)) for the detected
\* box (x, y, w, h) and the coarsest level's factor d, unclamped; d = 1 passes
\* the box through, and (10, 10, 50, 30) with d = 16 gives (160, 160, 800, 480).
C7_ReadIsScaledBox ==
    /\ Len(StagerReads) <= 1
    /\ (pc = "ReadLoop" /\ i <= ReadIteration) => StagerReads = <<>>
    /\ (pc = "ReadLoop" /\ i > ReadIteration) => Len(StagerReads) = 1
    /\ PcRank(At) > PcRank("ReadLoop") => Len(StagerReads) = 1
    /\ StagerReads # <<>> =>
          LET r == StagerReads[1]
              d == CoarseFactor
          IN  /\ r.level = 0
              /\ r.origin = <<Floor(box[1], d), Floor(box[2], d)>>
              /\ r.size = <<Floor(box[3], d), Floor(box[4], d)>>
              /\ Num(d) = Den(d) => (r.origin = <<box[1], box[2]>> /\ r.size = <<box[3], box[4]>>)
              /\ (box = <<10, 10, 50, 30>> /\ d = <<16, 1>>)
                    => (r.origin = <<160, 160>> /\ r.size = <<800, 480>>)

C7_Witness ==
    /\ pc = "Completed"
    /\ box = <<10, 10, 50, 30>>
    /\ slide.level_downsamples = <<One, <<4, 1>>, <<16, 1>>>>
    /\ StagerReads = <<[by |-> "Stager", level |-> 0, origin |-> <<160, 160>>,
                        size |-> <<800, 480>>]>>
    /\ result.message = SuccessMessage(800, 480)
    /\ Digits(800) = <<8, 0, 0>>

LeftLoss(v, lo) == v * Num(CoarseFactor) - lo * Den(CoarseFactor)

FarLoss(v, len, lo, span) == (v + len) * Num(CoarseFactor) - (lo + span) * Den(CoarseFactor)

\* C8 as stated: each edge of the scaled region lies within d base pixels of
\* the exactly scaled edge, for every d >= 1.
\* The shortfalls, in units of 1/Den(d) base pixels, of the region's near edge
\* lo and far edge lo + span against the exactly scaled v*d and (v + len)*d.
C8_EdgesWithinFactor ==
    region # NoBox =>
        /\ LeftLoss(box[1], region[1]) <= Num(CoarseFactor)
        /\ LeftLoss(box[2], region[2]) <= Num(CoarseFactor)
        /\ FarLoss(box[1], box[3], region[1], region[3]) <= Num(CoarseFactor)
        /\ FarLoss(box[2], box[4], region[2], region[4]) <= Num(CoarseFactor)

\* C8 amended: the left and top edges fall short of the exactly scaled edge by
\* less than 1 base pixel, hence by no more than d; the right and bottom edges
\* by less than 2 base pixels, hence by no more than d whenever d >= 2.
C8_EdgesWithinTwoPixels ==
    region # NoBox =>
        \A c \in 1..2 :
            /\ LeftLoss(box[c], region[c]) < Den(CoarseFactor)
            /\ LeftLoss(box[c], region[c]) <= Num(CoarseFactor)
            /\ FarLoss(box[c], box[c + 2], region[c], region[c + 2]) < 2 * Den(CoarseFactor)
            /\ Num(CoarseFactor) >= 2 * Den(CoarseFactor)
                  => FarLoss(box[c], box[c + 2], region[c], region[c + 2]) <= Num(CoarseFactor)

C8_Witness ==
    /\ region # NoBox
    /\ Num(CoarseFactor) % Den(CoarseFactor) # 0
    /\ Num(CoarseFactor) >= 2 * Den(CoarseFactor)
    /\ FarLoss(box[1], box[3], region[1], region[3]) > Den(CoarseFactor)

\* C9: no progress checkpoint is emitted before the level-0 read is issued.
C9_NoCheckpointBeforeRead == StagerReads = <<>> => checkpoints = 0

====
